---- MODULE Spec2Model ----
(***************************************************************************)
(* Trip ledger of the TMS backend: the create-trip, update-trip and        *)
(* list-trips route handlers (server/routes.ts) over the trip storage      *)
(* (server/storage.ts).  A handler is split at its awaits: every storage   *)
(* call is one atomic step on the database, and the synchronous code       *)
(* between two awaits belongs to the step that precedes it.  Request       *)
(* bodies are those the input schemas accept; the 400 of a body they       *)
(* refuse leaves the ledger alone and is not modelled.                     *)
(***************************************************************************)
EXTENDS Integers, Sequences, FiniteSets, TLC

VARIABLES
    trips,  \* the trips table: a sequence of rows, row i has serial id i
    year,   \* what new Date().getFullYear() returns while the requests run
    pc,     \* per client: where its request handler stands
    req,    \* per client: the request being served, or the last one served
    ctx,    \* per client: the handler's locals that live across an await
    resp,   \* per client: the last response sent
    nreq    \* per client: the number of requests it has sent

vars == <<trips, year, pc, req, ctx, resp, nreq>>

----------------------------------------------------------------------------
(* Bounds *)

MaxRequests == 2
MaxAmount == 1

Clients == {"c1", "c2"}
Years == {2025, 2026}

----------------------------------------------------------------------------
(* JavaScript values.  Amounts travel and are stored as decimal text; a    *)
(* key that is absent from an object reads as undefined, JSON null and SQL *)
(* NULL read as null.                                                      *)

Undefined == "undefined"
Null == "null"

ROLES == [ADMIN |-> "ADMIN", MANAGER |-> "MANAGER"]
TRIP_STATUS == [PENDING |-> "PENDING", COMPLETED |-> "COMPLETED", SETTLED |-> "SETTLED"]
Statuses == {TRIP_STATUS.PENDING, TRIP_STATUS.COMPLETED, TRIP_STATUS.SETTLED}

\* !x is true for undefined, null and the empty string; any other text,
\* "0" included, is truthy.
Falsy(v) == v \in {Undefined, Null, ""}

\* a || b
Or(a, b) == IF Falsy(a) THEN b ELSE a

\* a ?? b
Coalesce(a, b) == IF a \in {Undefined, Null} THEN b ELSE a

\* (n).toString()
ToText(n) == ToString(n)

NumRange == (0 - (MaxAmount + 1)) .. (MaxAmount + 1)

\* Number(text) of a decimal text
NumberOf(v) == CHOOSE n \in NumRange : ToText(n) = v

\* Number(v || 0)
NumOr0(v) == IF Falsy(v) THEN 0 ELSE NumberOf(v)

\* (Number(a || 0) - Number(b || 0)).toString()
Balance(a, b) == ToText(NumOr0(a) - NumOr0(b))

----------------------------------------------------------------------------
(* Rows and request bodies *)

Columns ==
    {"tripId", "vehicleNumber", "loadingDate", "status",
     "partyFreight", "partyAdvance", "partyBalance",
     "motorOwnerBhada", "motorOwnerAdvance", "motorOwnerBalance"}

\* An object with none of the trip keys.
Empty == [c \in Columns |-> Undefined]

\* Decimal texts a caller sends as an amount, and null for an empty amount.
Amounts == {Null} \cup {ToText(n) : n \in 0 .. MaxAmount}
MaybeAmounts == {Undefined} \cup Amounts

\* A balance text a caller sends of its own accord.
CallerBalance == ToText(MaxAmount + 1)

\* Loading dates, oldest first (ISO dates order as their texts do).
DateLine == <<"2025-01-10", "2025-02-20">>
DateRank(d) == CHOOSE k \in 1 .. Len(DateLine) : DateLine[k] = d

\* What the update route's input schema lets through: status, the amounts of
\* one side, or the two balance fields.  tripId is no key of the input schema.
StatusBodies == {[Empty EXCEPT !.status = s] : s \in Statuses}
PartyBodies ==
    {[Empty EXCEPT !.partyFreight = f, !.partyAdvance = a] :
        f \in MaybeAmounts, a \in MaybeAmounts}
OwnerBodies ==
    {[Empty EXCEPT !.motorOwnerBhada = b, !.motorOwnerAdvance = a] :
        b \in MaybeAmounts, a \in MaybeAmounts}
BalanceBodies ==
    {[Empty EXCEPT !.partyBalance = CallerBalance, !.motorOwnerBalance = CallerBalance]}
UpdateBodies == StatusBodies \cup PartyBodies \cup OwnerBodies \cup BalanceBodies

\* The create route's input: the same fields, with the trip's vehicle and date.
CreateBodies ==
    {[b EXCEPT !.vehicleNumber = "MH12", !.loadingDate = DateLine[1]] : b \in UpdateBodies}

----------------------------------------------------------------------------
(* storage.ts: the trips table *)

\* INSERT: a column the row leaves out takes its default.
ColumnDefault(c) == IF c = "status" THEN TRIP_STATUS.PENDING ELSE Null

createTrip(table, row) ==
    Append(table, [c \in Columns |-> IF row[c] = Undefined THEN ColumnDefault(c) ELSE row[c]])

\* updateTrip as an upsert: an unknown id inserts the values as a new row.
updateTripOrInsert(table, id, set) ==
    IF id \in DOMAIN table
    THEN [table EXCEPT ![id] =
            [c \in Columns |-> IF set[c] = Undefined THEN @[c] ELSE set[c]]]
    ELSE createTrip(table, set)

\* UPDATE ... SET <the keys present> WHERE id = <id>: no row matches an
\* unknown id, and nothing is written.
updateTrip(table, id, set) ==
    IF id \in DOMAIN table
    THEN [table EXCEPT ![id] =
            [c \in Columns |-> IF set[c] = Undefined THEN @[c] ELSE set[c]]]
    ELSE table

hasTrip(table, id) == id \in DOMAIN table

\* JavaScript booleans of the listing filters
JsTrue == "<true>"
JsFalse == "<false>"

NoFilters ==
    [vehicleNumber |-> Undefined, tripId |-> Undefined,
     loadedAfter |-> Undefined, settled |-> Undefined]

CharAt(s, i) == SubSeq(s, i, i)

UpperCase == "ABCDEFGHIJKLMNOPQRSTUVWXYZ"
LowerCase == "abcdefghijklmnopqrstuvwxyz"
LowerMap ==
    [c \in {CharAt(UpperCase, k) : k \in 1 .. Len(UpperCase)} |->
        CharAt(LowerCase, CHOOSE k \in 1 .. Len(UpperCase) : CharAt(UpperCase, k) = c)]
LowerChar(c) == IF c \in DOMAIN LowerMap THEN LowerMap[c] ELSE c

\* SQL LIKE from position i of the text and position j of the pattern, letter
\* case ignored: % stands for any run of characters, _ for any one character.
RECURSIVE LikeFrom(_, _, _, _)
LikeFrom(text, i, pattern, j) ==
    IF j > Len(pattern) THEN i > Len(text)
    ELSE IF CharAt(pattern, j) = "%"
    THEN \/ LikeFrom(text, i, pattern, j + 1)
         \/ i <= Len(text) /\ LikeFrom(text, i + 1, pattern, j)
    ELSE /\ i <= Len(text)
         /\ \/ CharAt(pattern, j) = "_"
            \/ LowerChar(CharAt(text, i)) = LowerChar(CharAt(pattern, j))
         /\ LikeFrom(text, i + 1, pattern, j + 1)

\* column ILIKE pattern; NULL matches nothing
ILike(value, pattern) == value # Null /\ LikeFrom(value, 1, pattern, 1)

\* The status condition with settled tested for truth only: false filters nothing.
SettledConditionTruthy(row, settled) ==
    IF settled = JsTrue THEN row.status = TRIP_STATUS.SETTLED ELSE TRUE

\* the status condition of getTrips
SettledCondition(row, settled) ==
    IF settled = JsTrue THEN row.status = TRIP_STATUS.SETTLED
    ELSE IF settled = JsFalse THEN row.status # TRIP_STATUS.SETTLED
    ELSE TRUE

\* and(...conditions) of getTrips
TripMatches(row, filters) ==
    /\ Falsy(filters.vehicleNumber)
        \/ ILike(row.vehicleNumber, "%" \o filters.vehicleNumber \o "%")
    /\ Falsy(filters.tripId)
        \/ ILike(row.tripId, "%" \o filters.tripId \o "%")
    /\ Falsy(filters.loadedAfter)
        \/ (row.loadingDate # Null /\ DateRank(row.loadingDate) >= DateRank(filters.loadedAfter))
    /\ SettledCondition(row, filters.settled)

Matching(table, filters) == {i \in DOMAIN table : TripMatches(table[i], filters)}

\* The ids of the rows getTrips may return: the matching rows, latest loading
\* date first; SQL leaves the order of rows of one date open.
LatestFirst(table, ids) ==
    {rows \in [1 .. Cardinality(ids) -> ids] :
        /\ \A i, j \in DOMAIN rows : i # j => rows[i] # rows[j]
        /\ \A i, j \in DOMAIN rows :
                i < j => DateRank(table[rows[i]].loadingDate) >= DateRank(table[rows[j]].loadingDate)}

getTrips(table, filters) == LatestFirst(table, Matching(table, filters))

----------------------------------------------------------------------------
(* routes.ts: the create-trip and update-trip handlers *)

\* role is req.user.role, which only the update handler reads.
NoReq == [kind |-> "none", role |-> Undefined, id |-> 0, query |-> NoFilters]
NoResp == [code |-> 0, message |-> "", rows |-> <<>>]

Sent(code, message) == [code |-> code, message |-> message, rows |-> <<>>]

\* `${year}_${count}`
TripCode(y, count) == ToText(y) \o "_" \o ToText(count)

\* The count without the + 1.
NextCountFromZero(rows) == Len(rows)

\* (await storage.getTrips()).length + 1
NextCount(rows) == Len(rows) + 1

\* {...input, tripId, motorOwnerBalance, partyBalance} of the create handler
CreateRow(input, tripId) ==
    [input EXCEPT
        !.tripId = tripId,
        !.motorOwnerBalance = Balance(input.motorOwnerBhada, input.motorOwnerAdvance),
        !.partyBalance = Balance(input.partyFreight, input.partyAdvance)]

\* The first rule with COMPLETED left out.
LockedWhenSettled(role, existing) ==
    /\ role # ROLES.ADMIN
    /\ existing.status = TRIP_STATUS.SETTLED

\* Rule: managers cannot edit completed or settled trips.
LockedForRole(role, existing) ==
    /\ role # ROLES.ADMIN
    /\ existing.status \in {TRIP_STATUS.COMPLETED, TRIP_STATUS.SETTLED}

\* The second rule with the body's bhada tested for truth, not for presence.
BhadaForbiddenIfTruthy(role, input) ==
    /\ role # ROLES.ADMIN
    /\ ~Falsy(input.motorOwnerBhada)

\* Rule: managers cannot edit bhada.
BhadaForbidden(role, input) ==
    /\ role # ROLES.ADMIN
    /\ input.motorOwnerBhada # Undefined

\* if (input.motorOwnerBhada || input.motorOwnerAdvance) { ... }
NewOwnerBalance(input, existing) ==
    IF ~Falsy(Or(input.motorOwnerBhada, input.motorOwnerAdvance))
    THEN Balance(Coalesce(input.motorOwnerBhada, existing.motorOwnerBhada),
                 Coalesce(input.motorOwnerAdvance, existing.motorOwnerAdvance))
    ELSE existing.motorOwnerBalance

\* if (input.partyFreight || input.partyAdvance) { ... }
NewPartyBalance(input, existing) ==
    IF ~Falsy(Or(input.partyFreight, input.partyAdvance))
    THEN Balance(Coalesce(input.partyFreight, existing.partyFreight),
                 Coalesce(input.partyAdvance, existing.partyAdvance))
    ELSE existing.partyBalance

\* {...input, motorOwnerBalance, partyBalance} of the update handler
UpdateSet(input, existing) ==
    [input EXCEPT
        !.motorOwnerBalance = NewOwnerBalance(input, existing),
        !.partyBalance = NewPartyBalance(input, existing)]

\* POST create, up to the insert: the year is read, the rows are counted,
\* and the row to insert is built.
CreateCount(p, bodies) ==
    /\ pc[p] = "idle"
    /\ nreq[p] < MaxRequests
    /\ \E input \in bodies, rows \in getTrips(trips, NoFilters) :
        /\ req' = [req EXCEPT ![p] = [NoReq EXCEPT !.kind = "create"]]
        /\ ctx' = [ctx EXCEPT ![p] = CreateRow(input, TripCode(year, NextCount(rows)))]
    /\ pc' = [pc EXCEPT ![p] = "create_insert"]
    /\ resp' = [resp EXCEPT ![p] = NoResp]
    /\ nreq' = [nreq EXCEPT ![p] = @ + 1]
    /\ UNCHANGED <<trips, year>>

\* POST create: storage.createTrip and the 201.
CreateInsert(p) ==
    /\ pc[p] = "create_insert"
    /\ trips' = createTrip(trips, ctx[p])
    /\ resp' = [resp EXCEPT ![p] = Sent(201, "")]
    /\ req' = [req EXCEPT ![p].id = Len(trips) + 1]
    /\ ctx' = [ctx EXCEPT ![p] = Empty]
    /\ pc' = [pc EXCEPT ![p] = "idle"]
    /\ UNCHANGED <<year, nreq>>

\* PUT update: the request arrives and its body is parsed.
UpdateBegin(p, bodies) ==
    /\ pc[p] = "idle"
    /\ nreq[p] < MaxRequests
    /\ \E role \in {ROLES.ADMIN, ROLES.MANAGER}, id \in 1 .. (Len(trips) + 1), input \in bodies :
        /\ req' = [req EXCEPT ![p] = [NoReq EXCEPT !.kind = "update", !.role = role, !.id = id]]
        /\ ctx' = [ctx EXCEPT ![p] = input]
    /\ pc' = [pc EXCEPT ![p] = "update_get"]
    /\ resp' = [resp EXCEPT ![p] = NoResp]
    /\ nreq' = [nreq EXCEPT ![p] = @ + 1]
    /\ UNCHANGED <<trips, year>>

Reject(p, code, message) ==
    /\ resp' = [resp EXCEPT ![p] = Sent(code, message)]
    /\ ctx' = [ctx EXCEPT ![p] = Empty]
    /\ pc' = [pc EXCEPT ![p] = "idle"]

\* PUT update: storage.getTrip, the 404, the two rules, the balances.
UpdateGet(p) ==
    /\ pc[p] = "update_get"
    /\ IF ~hasTrip(trips, req[p].id)
       THEN Reject(p, 404, "")
       ELSE IF LockedForRole(req[p].role, trips[req[p].id])
       THEN Reject(p, 403, "Managers cannot edit completed or settled trips.")
       ELSE IF BhadaForbidden(req[p].role, ctx[p])
       THEN Reject(p, 403, "Managers cannot edit Bhada.")
       ELSE /\ ctx' = [ctx EXCEPT ![p] = UpdateSet(ctx[p], trips[req[p].id])]
            /\ pc' = [pc EXCEPT ![p] = "update_write"]
            /\ UNCHANGED resp
    /\ UNCHANGED <<trips, year, req, nreq>>

\* PUT update: storage.updateTrip and the 200.
UpdateWrite(p) ==
    /\ pc[p] = "update_write"
    /\ trips' = updateTrip(trips, req[p].id, ctx[p])
    /\ resp' = [resp EXCEPT ![p] = Sent(200, "")]
    /\ ctx' = [ctx EXCEPT ![p] = Empty]
    /\ pc' = [pc EXCEPT ![p] = "idle"]
    /\ UNCHANGED <<year, req, nreq>>

\* The query strings of GET list.
NoQuery == NoFilters
Queries ==
    {[q EXCEPT !.settled = s] :
        q \in {NoQuery,
               [NoQuery EXCEPT !.vehicleNumber = "mh"],
               [NoQuery EXCEPT !.tripId = "_1"],
               [NoQuery EXCEPT !.loadedAfter = DateLine[Len(DateLine)]]},
        s \in {Undefined, "true", "false"}}

\* query -> filters of the list handler
ListFilters(query) ==
    [vehicleNumber |-> query.vehicleNumber,
     tripId |-> query.tripId,
     loadedAfter |-> IF ~Falsy(query.loadedAfter) THEN query.loadedAfter ELSE Undefined,
     settled |-> IF query.settled = "true" THEN JsTrue
                 ELSE IF query.settled = "false" THEN JsFalse
                 ELSE Undefined]

\* GET list: storage.getTrips and the 200 with the rows.
ListTrips(p) ==
    /\ pc[p] = "idle"
    /\ \E query \in Queries :
        \E rows \in getTrips(trips, ListFilters(query)) :
            /\ req' = [req EXCEPT ![p] = [NoReq EXCEPT !.kind = "list", !.query = query]]
            /\ resp' = [resp EXCEPT ![p] = [code |-> 200, message |-> "", rows |-> rows]]
    /\ UNCHANGED <<trips, year, pc, ctx, nreq>>

----------------------------------------------------------------------------
(* Specifications *)

Init ==
    /\ trips = <<>>
    /\ year \in Years
    /\ pc = [p \in Clients |-> "idle"]
    /\ req = [p \in Clients |-> NoReq]
    /\ ctx = [p \in Clients |-> Empty]
    /\ resp = [p \in Clients |-> NoResp]
    /\ nreq = [p \in Clients |-> 0]

\* Sequential execution: one client, whose next request starts when the
\* last one has been answered.
Next ==
    \E p \in {"c1"} :
    \/ CreateCount(p, CreateBodies)
    \/ CreateInsert(p)
    \/ UpdateBegin(p, UpdateBodies)
    \/ UpdateGet(p)
    \/ UpdateWrite(p)

Spec == Init /\ [][Next]_vars

\* Requests of the two clients interleave at their awaits.
RaceUpdateBodies ==
    StatusBodies \cup {[Empty EXCEPT !.partyAdvance = ToText(MaxAmount)]}
RaceCreateBodies ==
    {[b EXCEPT !.vehicleNumber = "MH12", !.loadingDate = DateLine[1]] : b \in RaceUpdateBodies}

ConcNext ==
    \E p \in Clients :
    \/ CreateCount(p, RaceCreateBodies)
    \/ CreateInsert(p)
    \/ UpdateBegin(p, RaceUpdateBodies)
    \/ UpdateGet(p)
    \/ UpdateWrite(p)

ConcSpec == Init /\ [][ConcNext]_vars

\* One client fills the ledger with trips of several vehicles, loading dates
\* and statuses, and lists it.
ListCreateBodies ==
    {[Empty EXCEPT !.vehicleNumber = v, !.loadingDate = DateLine[k], !.status = s] :
        v \in {"MH12", "ka05"}, k \in DOMAIN DateLine, s \in {Undefined, TRIP_STATUS.SETTLED}}

ListNext ==
    \E p \in {"c1"} :
    \/ CreateCount(p, ListCreateBodies)
    \/ CreateInsert(p)
    \/ ListTrips(p)

ListSpec == Init /\ [][ListNext]_vars

----------------------------------------------------------------------------
(* Properties *)

Locked == {TRIP_STATUS.COMPLETED, TRIP_STATUS.SETTLED}

\* Client p's update handler looks the trip up in this step.
Looks(p) == pc[p] = "update_get" /\ pc'[p] # "update_get"

\* Client p's update handler writes in this step.
Writes(p) == pc[p] = "update_write" /\ pc'[p] = "idle"

\* Client p's create handler inserts in this step.
Inserts(p) == pc[p] = "create_insert" /\ pc'[p] = "idle"

\* C1: every stored trip has partyBalance = partyFreight - partyAdvance and
\* motorOwnerBalance = motorOwnerBhada - motorOwnerAdvance, an absent amount
\* counting as zero.
BalancesDerived ==
    \A i \in DOMAIN trips :
        /\ NumOr0(trips[i].partyBalance)
            = NumOr0(trips[i].partyFreight) - NumOr0(trips[i].partyAdvance)
        /\ NumOr0(trips[i].motorOwnerBalance)
            = NumOr0(trips[i].motorOwnerBhada) - NumOr0(trips[i].motorOwnerAdvance)

\* C2: an update of a COMPLETED or SETTLED trip by a caller who is not ADMIN
\* is answered 403 and changes no trip, whatever its body; from an ADMIN it
\* goes on to the write, which stores the body's fields and answers 200.
ManagerLockedOut ==
    [][\A p \in Clients :
        /\ (Looks(p) /\ hasTrip(trips, req[p].id) /\ trips[req[p].id].status \in Locked)
            => IF req[p].role # ROLES.ADMIN
               THEN resp'[p].code = 403 /\ pc'[p] = "idle" /\ trips' = trips
               ELSE pc'[p] = "update_write" /\ resp'[p].code = 0 /\ trips' = trips
        /\ (Writes(p) /\ req[p].role = ROLES.ADMIN)
            => /\ resp'[p].code = 200
               /\ \A c \in Columns :
                    ctx[p][c] # Undefined => trips'[req[p].id][c] = ctx[p][c]
      ]_vars

ManagerLockedOutWitness ==
    \E p \in Clients :
        /\ req[p].kind = "update"
        /\ req[p].role = ROLES.MANAGER
        /\ resp[p].code = 403
        /\ hasTrip(trips, req[p].id)
        /\ trips[req[p].id].status = TRIP_STATUS.SETTLED

\* C3: an update by a caller who is not ADMIN whose body has a motorOwnerBhada
\* key is answered 403 and writes nothing, in any trip status; and no write of
\* such a caller changes a stored motorOwnerBhada.
BhadaOnlyByAdmin ==
    [][\A p \in Clients :
        /\ (Looks(p) /\ hasTrip(trips, req[p].id)
                /\ req[p].role # ROLES.ADMIN /\ ctx[p].motorOwnerBhada # Undefined)
            => resp'[p].code = 403 /\ pc'[p] = "idle" /\ trips' = trips
        /\ (Writes(p) /\ req[p].role # ROLES.ADMIN)
            => \A i \in DOMAIN trips :
                    trips'[i].motorOwnerBhada = trips[i].motorOwnerBhada
      ]_vars

BhadaOnlyByAdminWitness ==
    \E p \in Clients :
        /\ req[p].kind = "update"
        /\ req[p].role = ROLES.MANAGER
        /\ resp[p] = Sent(403, "Managers cannot edit Bhada.")
        /\ hasTrip(trips, req[p].id)
        /\ trips[req[p].id].status = TRIP_STATUS.PENDING

StatusRank(s) ==
    IF s = TRIP_STATUS.PENDING THEN 1 ELSE IF s = TRIP_STATUS.COMPLETED THEN 2 ELSE 3

\* C4: the status of a trip never moves to an earlier stage of
\* PENDING -> COMPLETED -> SETTLED, and a SETTLED trip stays SETTLED.
StatusOnlyForward ==
    [][\A i \in DOMAIN trips :
        StatusRank(trips'[i].status) >= StatusRank(trips[i].status)]_vars

\* C5: every stored trip keeps the non-empty code it was created with, and
\* no two stored trips have the same code.
TripCodesUniqueAndFixed ==
    [][/\ \A i \in DOMAIN trips : trips'[i].tripId = trips[i].tripId
       /\ \A i, j \in DOMAIN trips' :
            /\ trips'[i].tripId # ""
            /\ i # j => trips'[i].tripId # trips'[j].tripId
      ]_vars

\* C6: under sequential execution a create issued when the ledger holds k
\* trips appends one trip whose code is {year}_{k+1}.
SequentialCodes ==
    [][\A p \in Clients :
        Inserts(p) =>
            /\ Len(trips') = Len(trips) + 1
            /\ \A i \in DOMAIN trips : trips'[i] = trips[i]
            /\ trips'[Len(trips) + 1].tripId
                = ToString(year) \o "_" \o ToString(Len(trips) + 1)
      ]_vars

SequentialCodesWitness ==
    /\ Len(trips) = 2
    /\ trips[1].tripId = ToString(year) \o "_1"
    /\ trips[2].tripId = ToString(year) \o "_2"

\* C7: an update whose id matches no stored trip is answered 404 and leaves
\* the ledger as it was; the storage's updateTrip writes nothing for such an id.
UnknownTripNotFound ==
    [][\A p \in Clients :
        (Looks(p) /\ ~hasTrip(trips, req[p].id)) =>
            /\ resp'[p].code = 404
            /\ pc'[p] = "idle"
            /\ trips' = trips
            /\ \A set \in UpdateBodies : updateTrip(trips, req[p].id, set) = trips
      ]_vars

UnknownTripNotFoundWitness ==
    \E p \in Clients :
        /\ req[p].kind = "update"
        /\ resp[p].code = 404
        /\ Len(trips) >= 1
        /\ req[p].id > Len(trips)

\* C8: a listing with settled=true holds exactly the SETTLED trips that match
\* the other filters, each once; with settled=false exactly those that are not
\* SETTLED; without the settled filter all that match the other filters.
SettledFilterExact ==
    \A p \in Clients :
        req[p].kind = "list" =>
            LET query == req[p].query
                rows == resp[p].rows
                got == {rows[k] : k \in DOMAIN rows}
                others == Matching(trips, ListFilters([query EXCEPT !.settled = Undefined]))
            IN  /\ resp[p].code = 200
                /\ Cardinality(got) = Len(rows)
                /\ got = IF query.settled = "true"
                         THEN {i \in others : trips[i].status = TRIP_STATUS.SETTLED}
                         ELSE IF query.settled = "false"
                         THEN {i \in others : trips[i].status # TRIP_STATUS.SETTLED}
                         ELSE others

SettledFilterExactWitness ==
    \E p \in Clients :
        /\ req[p].kind = "list"
        /\ req[p].query.settled = "false"
        /\ req[p].query.vehicleNumber = "mh"
        /\ Len(trips) = 2
        /\ Len(resp[p].rows) = 1
        /\ trips[1].vehicleNumber = "MH12" /\ trips[2].vehicleNumber = "MH12"
        /\ trips[1].status = TRIP_STATUS.SETTLED

\* C9: no write of a caller who is not ADMIN is applied to a trip whose stored
\* status is COMPLETED or SETTLED at the moment of the write.
NoManagerWriteOnLocked ==
    [][\A p \in Clients :
        (Writes(p) /\ req[p].role # ROLES.ADMIN) =>
            trips[req[p].id].status \notin Locked
      ]_vars

\* The operand of a recomputed balance: the body's value when the key is
\* present, the stored one otherwise.
Supplied(value, stored) == IF value # Undefined THEN value ELSE stored

\* C10: an accepted update carries a balance forward when neither of its two
\* inputs is in the body, and otherwise stores (supplied first input, else the
\* stored one) minus (supplied second input, else the stored one).
BalanceRecomputedWhenPresent ==
    [][\A p \in Clients :
        Writes(p) =>
            LET old == trips[req[p].id]
                new == trips'[req[p].id]
                body == ctx[p]
            IN  /\ IF body.partyFreight = Undefined /\ body.partyAdvance = Undefined
                   THEN new.partyBalance = old.partyBalance
                   ELSE NumOr0(new.partyBalance)
                        = NumOr0(Supplied(body.partyFreight, old.partyFreight))
                          - NumOr0(Supplied(body.partyAdvance, old.partyAdvance))
                /\ IF body.motorOwnerBhada = Undefined /\ body.motorOwnerAdvance = Undefined
                   THEN new.motorOwnerBalance = old.motorOwnerBalance
                   ELSE NumOr0(new.motorOwnerBalance)
                        = NumOr0(Supplied(body.motorOwnerBhada, old.motorOwnerBhada))
                          - NumOr0(Supplied(body.motorOwnerAdvance, old.motorOwnerAdvance))
      ]_vars

====
